---- MODULE Spec2Model ----
(***************************************************************************)
(* Model of the image organizer (src/src/main.rs): ImageManager (sequence  *)
(* of image paths + current index), Loader (set of loaded image paths),    *)
(* MyApp (move log, move / undo) and the filesystem they act on.            *)
(*                                                                         *)
(* A path is a pair <<dir, name>>.  Directories and file names are small   *)
(* naturals whose order stands for the lexicographic order of the strings. *)
(* Indices are 0-based as in the source; TLA+ sequences are 1-based, so    *)
(* element i of a Vec v is v[i + 1].                                       *)
(***************************************************************************)
EXTENDS Integers, Sequences, FiniteSets, TLC

\* ---------------------------------------------------------------- bounds
\* Number of image files initially in directory 1.
NumImages == 3
\* Cap on the length of move_log explored.
MaxLog == 2
\* Cap on the length of move_log explored where renames may fail for
\* reasons outside the program (FaultSpec).
MaxLogFault == 1
\* SessionSpec: a longer directory, a deeper log, a bounded number of ticks.
SessionImages == 9
MaxLogSession == 3
MaxTicks == 7
\* How many times previous_image may step the index below USIZE_MAX on an
\* empty sequence (build without overflow checks) before the model stops
\* following it.
MaxDangling == 1
\* Longest folder/letter table, and longest list of indices handed to
\* remove_folder_letter_entries, explored (TableSpec).
MaxEntries == 3

\* ------------------------------------------------------ program constants
\* usize is modelled with 16 bits: only its wrap-around matters.
UsizeBits == 16
USIZE_MAX == (2 ^ UsizeBits) - 1
\* The 3 of saturating_sub(3) / saturating_add(3) in ImageManager::cleanup.
WindowRadius == 3

Dirs == {1, 2}
\* Name 0 is a file without an image extension; 1..NumImages are images.
Names == 0 .. SessionImages
Paths == Dirs \X Names
\* What the disk holds at a path where there is no file.
NoFile == <<>>

\* The extension of each file name, as written on disk.
Extension(name) ==
    IF name = 0 THEN "txt"
    ELSE IF name % 3 = 0 THEN "PNG"
    ELSE IF name % 3 = 1 THEN "jpg"
    ELSE "Jpeg"

\* str::to_lowercase on the extensions that occur.
ToLowercase(ext) ==
    CASE ext = "PNG" -> "png"
      [] ext = "Jpeg" -> "jpeg"
      [] OTHER -> ext

ImageExtensions == {"jpg", "jpeg", "png", "gif", "webp"}

\* ----------------------------------------------------------------- state
VARIABLES
    all_images,            \* ImageManager.all_images: Vec<String>
    current_image_index,   \* ImageManager.current_image_index: usize
    image_paths,           \* Loader.image_paths: HashSet<ImagePath>
    move_log,              \* MyApp.move_log: Vec<MoveLogEntry>
    fs,                    \* the filesystem: path -> the file there, named by the
                           \* path it had at the start (NoFile = absent)
    panicked,              \* the process has panicked
    last,                  \* position in MyApp::update: the step that ran last
                           \* and its outcome
    pre_move,              \* history: state before the last successful move
    ticks,                 \* history: calls of MyApp::update counted so far
    folder_letter_entries  \* MyApp.folder_letter_entries: Vec<FolderLetterEntry>

vars == <<all_images, current_image_index, image_paths, move_log, fs,
          panicked, last, pre_move, ticks, folder_letter_entries>>

NoSnap == [valid |-> FALSE, undone |-> FALSE]

\* ------------------------------------------------------------ Vec helpers
\* Mutant of VecRemove: the last element is removed (Vec::pop).
VecRemoveLast(v, i) == [k \in 1 .. (Len(v) - 1) |-> v[k]]

\* Vec::remove(i), 0-based.
VecRemove(v, i) ==
    [k \in 1 .. (Len(v) - 1) |-> IF k <= i THEN v[k] ELSE v[k + 1]]

\* Mutant of VecInsert: the element is pushed at the end.
VecInsertAtEnd(v, i, x) == v \o <<x>>

\* Vec::insert(i, x), 0-based, defined for i <= len.
VecInsert(v, i, x) ==
    [k \in 1 .. (Len(v) + 1) |->
        IF k <= i THEN v[k] ELSE IF k = i + 1 THEN x ELSE v[k - 1]]

\* Order of two path strings.
PathLess(p, q) == p[1] < q[1] \/ (p[1] = q[1] /\ p[2] < q[2])

\* Vec::sort on a set of distinct paths: ascending.
RECURSIVE SortAsc(_)
SortAsc(S) ==
    IF S = {} THEN <<>>
    ELSE LET m == CHOOSE p \in S : \A q \in S : p = q \/ PathLess(p, q)
         IN <<m>> \o SortAsc(S \ {m})

\* Vec::reverse.
Reverse(v) == [k \in 1 .. Len(v) |-> v[Len(v) + 1 - k]]

\* ------------------------------------------------------------- filesystem
Exists(f, p) == f[p] # NoFile

\* Mutant of GetImagePaths: sorted, but not reversed.
GetImagePathsAscending(f, dir) ==
    SortAsc({p \in Paths :
        /\ p[1] = dir
        /\ Exists(f, p)
        /\ ToLowercase(Extension(p[2])) \in ImageExtensions})

\* get_image_paths: the image files of a directory, sorted then reversed.
GetImagePaths(f, dir) ==
    Reverse(SortAsc({p \in Paths :
        /\ p[1] = dir
        /\ Exists(f, p)
        /\ ToLowercase(Extension(p[2])) \in ImageExtensions}))

\* PathBuf::from(dest_dir).join(file_name(src)) in move_file.
DestPath(src, dest_dir) == <<dest_dir, src[2]>>

\* std::fs::rename succeeds only on an existing source (and io_ok stands for
\* every other reason the platform may refuse).
RenameOk(f, from, io_ok) == io_ok /\ Exists(f, from)

\* std::fs::rename: the target is replaced; renaming a file to itself does nothing.
Rename(f, from, to) ==
    IF from = to THEN f
    ELSE [f EXCEPT ![to] = f[from], ![from] = NoFile]

\* ------------------------------------------------------------------ Loader
\* Mutant of LoaderAdd: the set is replaced instead of extended.
LoaderAddReplace(loaded, path) == {path}

\* Loader::add: HashSet::insert.
LoaderAdd(loaded, path) == loaded \cup {path}

\* Mutant of OnlyKeep: returns before removing anything.
OnlyKeepNoEvict(loaded, paths) == loaded

\* Mutant of OnlyKeep: the loaded set becomes the set of paths to keep.
OnlyKeepReplace(loaded, paths) == {paths[k] : k \in 1 .. Len(paths)}

\* Loader::only_keep.
OnlyKeep(loaded, paths) ==
    LET new_set == {paths[k] : k \in 1 .. Len(paths)}
        still_loaded == loaded \ new_set
    IN IF still_loaded = {} THEN loaded ELSE loaded \ still_loaded

\* ------------------------------------------------------------ ImageManager
SaturatingSub(a, b) == IF a < b THEN 0 ELSE a - b
SaturatingAdd(a, b) == IF a + b > USIZE_MAX THEN USIZE_MAX ELSE a + b
Max(a, b) == IF a >= b THEN a ELSE b
Min(a, b) == IF a <= b THEN a ELSE b

CleanupStart(index) == Max(0, SaturatingSub(index, WindowRadius))
\* Mutant of CleanupEnd: the range ends before the current index.
CleanupEndBeforeCurrent(index, len) == Min(len, index)

CleanupEnd(index, len) == Min(len, SaturatingAdd(index, WindowRadius))

\* keep_images of ImageManager::cleanup: all_images[start..end].
KeepImages(images, index) ==
    LET start == CleanupStart(index)
        end == CleanupEnd(index, Len(images))
    IN IF start >= end THEN <<>>
       ELSE [k \in 1 .. (end - start) |-> images[start + k]]

\* Mutant of NextIndex: stops at the last index instead of wrapping.
NextIndexNoWrap(index, n) == IF index + 1 >= n THEN index ELSE index + 1

\* next_image on a non-empty sequence (the + 1 cannot overflow there).
NextIndex(index, n) == (index + 1) % n

\* previous_image where num_images() - 1 does not underflow.
PreviousIndex(index, n) == IF index = 0 THEN n - 1 ELSE index - 1

\* Mutant of IndexAfterRemove: the index is left where it was.
IndexAfterRemoveNoClamp(index, new_len) == index

\* The index after remove_current_image has removed an element; new_len is
\* the length after the removal.
IndexAfterRemove(index, new_len) ==
    IF index >= new_len /\ index > 0 THEN new_len - 1 ELSE index

\* Mutant of NoCurrentImage: the last position counts as out of bounds.
NoCurrentImageOffByOne(images, index) == index + 1 >= Len(images)

\* The test with which remove_current_image returns None.
NoCurrentImage(images, index) == index >= Len(images)

\* ------------------------------------------------------------------- MyApp
\* Mutant of MoveLogEntry: the two paths are stored the wrong way round.
MoveLogEntrySwapped(src, dest) == [src |-> dest, dest |-> src]

\* MoveLogEntry { src, dest }.
MoveLogEntry(src, dest) == [src |-> src, dest |-> dest]

\* The entry Vec::pop returns in undo_move.
LastMove(log) == log[Len(log)]

\* Mutant of PopLog: the entry stays in the log.
PopLogKeepsEntry(log) == log

\* What Vec::pop leaves of a non-empty move_log in undo_move.
PopLog(log) == SubSeq(log, 1, Len(log) - 1)

\* ------------------------------------------------- position in update()
\* MyApp::update runs, in this order: cleanup; next_image if J is pressed;
\* previous_image if K is pressed; undo_move if Ctrl+Z is pressed; one
\* move_current_image_to_dest per pressed bound letter; set_image_folder if
\* a folder is picked; load_current_image.  Rank orders these steps.
Rank(op) ==
    CASE op = "cleanup" -> 0
      [] op = "next_image" -> 1
      [] op = "previous_image" -> 2
      [] op = "undo" -> 3
      [] op = "move" -> 4
      [] op = "set_image_folder" -> 5
      [] OTHER -> 6          \* "load_current_image" and "init": the tick is over

Hist(op, res) == [op |-> op, res |-> res]

\* A step that returned Some(ret).
HistSome(op, res, ret) == [op |-> op, res |-> res, ret |-> ret]

\* The step op may run now: the tick has started and has not passed op yet.
MayRun(op) == ~panicked /\ Rank(last.op) < Rank(op)

\* ------------------------------------------------------------------- Init
\* The disk: n images and a text file in directory 1, and in directory 2
\* one image with the same name as the first of them.
DiskWith(n) ==
    [p \in Paths |->
        IF (p[1] = 1 /\ p[2] <= n) \/ (p[1] = 2 /\ p[2] = 1) THEN p ELSE NoFile]

\* MyApp::default() on a given disk.
Default(disk) ==
    /\ all_images = <<>>
    /\ current_image_index = 0
    /\ image_paths = {}
    /\ move_log = <<>>
    /\ fs = disk
    /\ panicked = FALSE
    /\ last = Hist("init", "ok")
    /\ pre_move = NoSnap
    /\ ticks = 0
    /\ folder_letter_entries = <<>>

Init == Default(DiskWith(NumImages))

\* ---------------------------------------------------------------- actions
\* Mutant of Cleanup: update() calls cleanup a second time, after the input
\* has been handled.
CleanupAgainAfterInput(counted) ==
    /\ ~panicked
    /\ \/ Rank(last.op) = Rank("load_current_image")
       \/ Rank(last.op) \in Rank("next_image") .. Rank("move")
    /\ image_paths' = OnlyKeep(image_paths, KeepImages(all_images, current_image_index))
    /\ last' = Hist("cleanup", "ok")
    /\ ticks' = IF counted THEN ticks + 1 ELSE ticks
    /\ UNCHANGED <<all_images, current_image_index, move_log, fs, panicked, pre_move,
                   folder_letter_entries>>

\* ImageManager::cleanup, with Loader::only_keep: the first step of update().
\* counted says whether this specification counts the ticks.
Cleanup(counted) ==
    /\ ~panicked
    /\ Rank(last.op) = Rank("load_current_image")
    /\ image_paths' = OnlyKeep(image_paths, KeepImages(all_images, current_image_index))
    /\ last' = Hist("cleanup", "ok")
    /\ ticks' = IF counted THEN ticks + 1 ELSE ticks
    /\ UNCHANGED <<all_images, current_image_index, move_log, fs, panicked, pre_move,
                   folder_letter_entries>>

\* ImageManager::next_image: the remainder by num_images() = 0 panics.
NextImage ==
    /\ MayRun("next_image")
    /\ IF Len(all_images) = 0
       THEN /\ panicked' = TRUE
            /\ last' = Hist("next_image", "panic")
            /\ UNCHANGED current_image_index
       ELSE /\ current_image_index' = NextIndex(current_image_index, Len(all_images))
            /\ last' = Hist("next_image", "ok")
            /\ UNCHANGED panicked
    /\ pre_move' = NoSnap
    /\ UNCHANGED <<all_images, image_paths, move_log, fs, ticks,
                   folder_letter_entries>>

\* ImageManager::previous_image: num_images() - 1 underflows on an empty
\* sequence; a build with overflow checks panics, one without wraps.
PreviousImage ==
    /\ MayRun("previous_image")
    /\ IF current_image_index = 0 /\ Len(all_images) = 0
       THEN \/ /\ panicked' = TRUE
               /\ last' = Hist("previous_image", "panic")
               /\ UNCHANGED current_image_index
            \/ /\ current_image_index' = USIZE_MAX
               /\ last' = Hist("previous_image", "wrapped")
               /\ UNCHANGED panicked
       ELSE /\ current_image_index > USIZE_MAX - MaxDangling
               \/ current_image_index < Len(all_images)
            /\ current_image_index' =
                   PreviousIndex(current_image_index, Len(all_images))
            /\ last' = Hist("previous_image", "ok")
            /\ UNCHANGED panicked
    /\ pre_move' = NoSnap
    /\ UNCHANGED <<all_images, image_paths, move_log, fs, ticks,
                   folder_letter_entries>>

\* MyApp::undo_move, with ImageManager::add_image; Vec::insert panics when
\* the index is beyond the length.
UndoMove(io_ok) ==
    /\ MayRun("undo")
    /\ IF move_log = <<>>
       THEN /\ last' = Hist("undo", "nothing")
            /\ pre_move' = NoSnap
            /\ UNCHANGED <<all_images, image_paths, move_log, fs, panicked>>
       ELSE LET last_move == LastMove(move_log)
            IN /\ move_log' = PopLog(move_log)
               /\ IF ~RenameOk(fs, last_move.dest, io_ok)
                  THEN /\ last' = Hist("undo", "io_error")
                       /\ pre_move' = NoSnap
                       /\ UNCHANGED <<all_images, image_paths, fs, panicked>>
                  ELSE /\ fs' = Rename(fs, last_move.dest, last_move.src)
                       /\ IF current_image_index > Len(all_images)
                          THEN /\ panicked' = TRUE
                               /\ last' = Hist("undo", "panic")
                               /\ pre_move' = NoSnap
                               /\ UNCHANGED <<all_images, image_paths>>
                          ELSE /\ all_images' = VecInsert(all_images,
                                      current_image_index, last_move.src)
                               /\ image_paths' = LoaderAdd(image_paths, last_move.src)
                               /\ last' = HistSome("undo", "ok", last_move.src)
                               /\ pre_move' =
                                      IF pre_move.valid /\ ~pre_move.undone
                                      THEN [pre_move EXCEPT !.undone = TRUE]
                                      ELSE NoSnap
                               /\ UNCHANGED panicked
    /\ UNCHANGED <<current_image_index, ticks,
                   folder_letter_entries>>

\* MyApp::move_current_image_to_dest(dest_dir), with remove_current_image
\* and move_file: one call per pressed bound letter.
MoveCurrentImageToDest(dest_dir, io_ok) ==
    /\ ~panicked
    /\ Rank(last.op) <= Rank("move")
    /\ IF NoCurrentImage(all_images, current_image_index)
       THEN \* remove_current_image returned None: bail!
            /\ last' = Hist("move", "no_image")
            /\ pre_move' = NoSnap
            /\ UNCHANGED <<all_images, current_image_index, move_log, fs>>
       ELSE LET image_path == all_images[current_image_index + 1]
                removed == VecRemove(all_images, current_image_index)
                new_path == DestPath(image_path, dest_dir)
            IN /\ all_images' = removed
               /\ current_image_index' =
                      IndexAfterRemove(current_image_index, Len(removed))
               /\ IF RenameOk(fs, image_path, io_ok)
                  THEN /\ fs' = Rename(fs, image_path, new_path)
                       /\ move_log' = Append(move_log,
                              MoveLogEntry(image_path, new_path))
                       /\ last' = Hist("move", "ok")
                       /\ pre_move' = [valid |-> TRUE,
                                       undone |-> FALSE,
                                       all_images |-> all_images,
                                       current_image_index |-> current_image_index,
                                       fs |-> fs,
                                       dest_dir |-> dest_dir]
                  ELSE /\ last' = Hist("move", "io_error")
                       /\ pre_move' = NoSnap
                       /\ UNCHANGED <<fs, move_log>>
    /\ UNCHANGED <<image_paths, panicked, ticks,
                   folder_letter_entries>>

\* ImageManager::set_image_folder(folder_path), when the folder dialog
\* returns a folder.
SetImageFolder(dir) ==
    /\ MayRun("set_image_folder")
    /\ all_images' = GetImagePaths(fs, dir)
    /\ current_image_index' = 0
    /\ last' = Hist("set_image_folder", "ok")
    /\ pre_move' = NoSnap
    /\ UNCHANGED <<image_paths, move_log, fs, panicked, ticks,
                   folder_letter_entries>>

\* ImageManager::load_current_image, with Loader::add: the display request
\* that ends the tick.  The outcome records what HashSet::insert returned.
LoadCurrentImage ==
    /\ MayRun("load_current_image")
    /\ IF current_image_index < Len(all_images)
       THEN /\ image_paths' =
                   LoaderAdd(image_paths, all_images[current_image_index + 1])
            /\ last' = Hist("load_current_image",
                   IF all_images[current_image_index + 1] \in image_paths
                   THEN "present" ELSE "added")
       ELSE /\ last' = Hist("load_current_image", "none")
            /\ UNCHANGED image_paths
    /\ UNCHANGED <<all_images, current_image_index, move_log, fs, panicked, pre_move,
                   ticks, folder_letter_entries>>

\* The program on a disk whose renames fail only when the source is missing.
Next ==
    \/ Cleanup(FALSE)
    \/ NextImage
    \/ PreviousImage
    \/ UndoMove(TRUE)
    \/ \E dest_dir \in Dirs :
           Len(move_log) < MaxLog /\ MoveCurrentImageToDest(dest_dir, TRUE)
    \/ \E dir \in Dirs : SetImageFolder(dir)
    \/ LoadCurrentImage

Spec == Init /\ [][Next]_vars

\* The program on a disk whose renames may also fail for reasons outside the
\* program (permissions, devices).
FaultNext ==
    \/ Cleanup(FALSE)
    \/ NextImage
    \/ PreviousImage
    \/ \E io_ok \in BOOLEAN : UndoMove(io_ok)
    \/ \E dest_dir \in Dirs, io_ok \in BOOLEAN :
           Len(move_log) < MaxLogFault /\ MoveCurrentImageToDest(dest_dir, io_ok)
    \/ \E dir \in Dirs : SetImageFolder(dir)
    \/ LoadCurrentImage

FaultSpec == Init /\ [][FaultNext]_vars

\* A browsing session of MaxTicks ticks on a longer directory: the folder is
\* picked in the first tick and one letter is bound to directory 2.
SessionInit == Default(DiskWith(SessionImages))

SessionNext ==
    \/ ticks < MaxTicks /\ Cleanup(TRUE)
    \/ NextImage
    \/ PreviousImage
    \/ UndoMove(TRUE)
    \/ Len(move_log) < MaxLogSession /\ MoveCurrentImageToDest(2, TRUE)
    \/ \E dir \in Dirs : ticks <= 1 /\ SetImageFolder(dir)
    \/ LoadCurrentImage

SessionSpec == SessionInit /\ [][SessionNext]_vars

\* Sorting one folder: directory 1 is browsed and one letter is bound to
\* directory 2; any rename may fail for reasons outside the program.  The log
\* needs no cap here: it holds at most one entry per file of directory 1.
SortingNext ==
    \/ Cleanup(FALSE)
    \/ NextImage
    \/ PreviousImage
    \/ \E io_ok \in BOOLEAN : UndoMove(io_ok)
    \/ \E io_ok \in BOOLEAN : MoveCurrentImageToDest(2, io_ok)
    \/ SetImageFolder(1)
    \/ LoadCurrentImage

SortingSpec == Init /\ [][SortingNext]_vars

\* ------------------------------------------------ the folder/letter table
\* The letters typed into the letter field, first characters of new_letter.
Letters == {"a", "b"}

\* FolderLetterEntry { folder, letter }.
FolderLetterEntry(folder, letter) == [folder |-> folder, letter |-> letter]

\* The sequences over S of length at most n.
SeqsUpTo(S, n) == UNION {[1 .. k -> S] : k \in 0 .. n}

\* Vec<usize>::sort: ascending, equal elements kept.
RECURSIVE SortUsize(_)
SortUsize(v) ==
    IF v = <<>> THEN <<>>
    ELSE LET k == CHOOSE k \in 1 .. Len(v) : \A j \in 1 .. Len(v) : v[k] <= v[j]
         IN <<v[k]>> \o
            SortUsize([j \in 1 .. (Len(v) - 1) |-> IF j < k THEN v[j] ELSE v[j + 1]])

\* Mutant of RemovalOrder: the indices are sorted but not reversed.
RemovalOrderAscending(indecies) == SortUsize(indecies)

\* indecies.sort(); indecies.reverse() in remove_folder_letter_entries.
RemovalOrder(indecies) == Reverse(SortUsize(indecies))

\* The loop of remove_folder_letter_entries: Vec::remove for each index in
\* turn; Vec::remove panics on an index that is not below the length.
RECURSIVE RemoveEach(_, _)
RemoveEach(entries, indecies) ==
    IF indecies = <<>> THEN [entries |-> entries, panicked |-> FALSE]
    ELSE IF Head(indecies) >= Len(entries)
    THEN [entries |-> entries, panicked |-> TRUE]
    ELSE RemoveEach(VecRemove(entries, Head(indecies)), Tail(indecies))

\* A step and its outcome, with the argument it was called with.
HistArg(op, res, arg) == [op |-> op, res |-> res, arg |-> arg]

\* MyApp::remove_folder_letter_entries(indecies).
RemoveFolderLetterEntries(indecies) ==
    /\ ~panicked
    /\ LET done == RemoveEach(folder_letter_entries, RemovalOrder(indecies))
       IN /\ folder_letter_entries' = done.entries
          /\ panicked' = done.panicked
          /\ last' = HistArg("remove_folder_letter_entries",
                             IF done.panicked THEN "panic" ELSE "ok", indecies)
    /\ UNCHANGED <<all_images, current_image_index, image_paths, move_log, fs,
                   pre_move, ticks>>

\* The "+" button of update(): a new entry is pushed when a folder and a
\* letter have been entered.
AddFolderLetterEntry(new_folder, new_letter) ==
    /\ ~panicked
    /\ Len(folder_letter_entries) < MaxEntries
    /\ folder_letter_entries' =
           Append(folder_letter_entries, FolderLetterEntry(new_folder, new_letter))
    /\ last' = Hist("add_folder_letter_entry", "ok")
    /\ UNCHANGED <<all_images, current_image_index, image_paths, move_log, fs,
                   panicked, pre_move, ticks>>

\* MyApp { folder_letter_entries: <any table>, ..Default::default() }, as
\* remove_folder_letter_entries_test builds it.
TableInit ==
    /\ all_images = <<>>
    /\ current_image_index = 0
    /\ image_paths = {}
    /\ move_log = <<>>
    /\ fs = DiskWith(NumImages)
    /\ panicked = FALSE
    /\ last = Hist("init", "ok")
    /\ pre_move = NoSnap
    /\ ticks = 0
    /\ folder_letter_entries \in
           SeqsUpTo({FolderLetterEntry(folder, letter) :
                        folder \in Dirs, letter \in Letters}, MaxEntries)

\* The table of folders and letters, edited with "+" and "X"; the list of
\* indices is any list of indices, valid or not, repeated or not.
TableNext ==
    \/ \E indecies \in SeqsUpTo(0 .. (MaxEntries - 1), MaxEntries) :
           RemoveFolderLetterEntries(indecies)
    \/ \E new_folder \in Dirs, new_letter \in Letters :
           AddFolderLetterEntry(new_folder, new_letter)

TableSpec == TableInit /\ [][TableNext]_vars

\* ================================================================= claims
\* The paths ImageManager::cleanup hands to Loader::only_keep, as a set.
KeepSet == {KeepImages(all_images, current_image_index)[k] :
               k \in 1 .. Len(KeepImages(all_images, current_image_index))}

\* The path moved by the last successful move, and where it went.
MovedSrc == pre_move.all_images[pre_move.current_image_index + 1]
MovedDest == DestPath(MovedSrc, pre_move.dest_dir)

\* C1: whenever the sequence is non-empty the current index is inside it,
\* and right after a move has removed the current image the index is inside
\* the shorter sequence, or 0 when that sequence is empty.
C1_IndexInBounds ==
    /\ all_images # <<>> =>
           (0 <= current_image_index /\ current_image_index < Len(all_images))
    /\ (last.op = "move" /\ last.res \in {"ok", "io_error"}) =>
           IF Len(all_images) = 0
           THEN current_image_index = 0
           ELSE 0 <= current_image_index /\ current_image_index < Len(all_images)

\* C1 witness: a move has just removed the last element of a longer sequence
\* and the index was pulled back onto the new last element.
C1_Witness ==
    /\ last = Hist("move", "ok")
    /\ pre_move.valid
    /\ Len(pre_move.all_images) >= 2
    /\ pre_move.current_image_index = Len(pre_move.all_images) - 1
    /\ current_image_index = Len(all_images) - 1

\* C2 (as claimed): a move whose rename fails leaves the sequence and the
\* current index as they were before the call.
C2_FailedMoveRestores ==
    [][(last'.op = "move" /\ last'.res = "io_error") =>
           (all_images' = all_images /\ current_image_index' = current_image_index)]_vars

\* C3 (as claimed, for a destination other than the folder of the moved
\* file): a successful move followed at once by a successful undo gives back
\* the sequence, the index with the restored path at it, the file at its
\* original path, and nothing at the destination.
C3_RoundTrip ==
    (pre_move.valid /\ pre_move.undone /\ pre_move.dest_dir # MovedSrc[1]) =>
        /\ all_images = pre_move.all_images
        /\ current_image_index = pre_move.current_image_index
        /\ current_image_index < Len(all_images)
        /\ all_images[current_image_index + 1] = MovedSrc
        /\ fs[MovedSrc] = pre_move.fs[MovedSrc]
        /\ fs[MovedDest] = NoFile

\* C4 (as claimed): next and previous on an empty sequence do not panic and
\* leave the index and the sequence unchanged.
C4_EmptyNavigationNoOp ==
    [][(all_images = <<>> /\ last'.op \in {"next_image", "previous_image"}) =>
           (/\ ~panicked'
            /\ current_image_index' = current_image_index
            /\ all_images' = all_images)]_vars

\* next_image / previous_image applied k times to a sequence of n images.
RECURSIVE NextTimes(_, _, _)
NextTimes(index, n, k) ==
    IF k = 0 THEN index ELSE NextTimes(NextIndex(index, n), n, k - 1)

RECURSIVE PreviousTimes(_, _, _)
PreviousTimes(index, n, k) ==
    IF k = 0 THEN index ELSE PreviousTimes(PreviousIndex(index, n), n, k - 1)

\* C5: on a non-empty sequence of n images, n times next, and n times
\* previous, lead back to the index they started from; a next step from the
\* last index lands on 0 and a previous step from 0 lands on the last index.
C5_CyclicNavigation ==
    /\ [](all_images # <<>> /\ current_image_index < Len(all_images) =>
            /\ NextTimes(current_image_index, Len(all_images), Len(all_images))
                   = current_image_index
            /\ PreviousTimes(current_image_index, Len(all_images), Len(all_images))
                   = current_image_index)
    /\ [][(last' = Hist("next_image", "ok")
              /\ current_image_index = Len(all_images) - 1) =>
                 current_image_index' = 0]_vars
    /\ [][(last' = Hist("previous_image", "ok") /\ all_images # <<>>
              /\ current_image_index = 0) =>
                 current_image_index' = Len(all_images) - 1]_vars

\* C5 witness: next has just wrapped from the last index of a sequence of
\* at least three images to index 0.
C5_Witness ==
    /\ last = Hist("next_image", "ok")
    /\ Len(all_images) >= 3
    /\ current_image_index = 0

\* C6: right after cleanup at most 2 * radius + 1 images are loaded.
C6_WindowBoundAfterCleanup ==
    last.op = "cleanup" => Cardinality(image_paths) <= 2 * WindowRadius + 1

\* C6 witness: cleanup has just run and left a full window of loaded images
\* in a sequence that is longer than the window.
C6_Witness ==
    /\ last.op = "cleanup"
    /\ Cardinality(image_paths) = 2 * WindowRadius
    /\ Len(all_images) > 2 * WindowRadius + 1

\* C7 (as claimed): in every state of a session at most 2 * radius + 1
\* images are loaded.
C7_NeverAboveWindow == Cardinality(image_paths) <= 2 * WindowRadius + 1

\* C7 (amended): in every state of a session at most 2 * radius + 2 images
\* are loaded.
C7_NeverAboveWindowPlusOne == Cardinality(image_paths) <= 2 * WindowRadius + 2

\* C7 witness: the display request that ends a tick has loaded an image
\* beyond the window size.
C7_Witness ==
    /\ last = Hist("load_current_image", "added")
    /\ Cardinality(image_paths) = 2 * WindowRadius + 2

\* C8 (as claimed): the paths cleanup keeps are those at the positions from
\* max(0, index - 3) to min(len - 1, index + 3).
C8_KeepSetIsSymmetricWindow ==
    last.op = "cleanup" =>
        KeepSet = {all_images[i + 1] :
                      i \in Max(0, current_image_index - WindowRadius) ..
                            Min(Len(all_images) - 1,
                                current_image_index + WindowRadius)}

\* C9: cleanup turns the loaded set into its intersection with the keep
\* set: what is outside goes, what is inside stays, nothing is added.
C9_OnlyKeepIsIntersection ==
    [][last'.op = "cleanup" => image_paths' = image_paths \cap KeepSet]_vars

\* C9 witness: cleanup has run, loaded images remain, and a path of the keep
\* set is still not loaded.
C9_Witness ==
    /\ last.op = "cleanup"
    /\ image_paths # {}
    /\ KeepSet \ image_paths # {}
    /\ ticks > 2

\* C10: a display request for a loaded path leaves the loaded set as it is,
\* and one for a path that is not loaded adds that path and no other.
C10_AddIsIdempotent ==
    [][last'.op = "load_current_image" /\ last'.res # "none" =>
          LET path == all_images[current_image_index + 1]
          IN IF path \in image_paths
             THEN image_paths' = image_paths
             ELSE /\ image_paths' = image_paths \cup {path}
                  /\ Cardinality(image_paths') = Cardinality(image_paths) + 1]_vars

\* C10 witness: a display request found its path already loaded among
\* several loaded images.
C10_Witness ==
    /\ last = Hist("load_current_image", "present")
    /\ Cardinality(image_paths) >= 3

\* C11 (as claimed): undo is last-in-first-out.  On a disk whose renames fail
\* only for a missing source, every undo_move on a non-empty log takes the
\* most recent entry and no other, leaves the entries below it as they were,
\* renames that entry's dest back to its src and, when it returns, returns
\* that entry's src; it never comes back with nothing.
C11_UndoIsLifo ==
    [][(last'.op = "undo" /\ move_log # <<>>) =>
          LET top == move_log[Len(move_log)]
          IN /\ Len(move_log') = Len(move_log) - 1
             /\ \A k \in 1 .. Len(move_log') : move_log'[k] = move_log[k]
             /\ last'.res \in {"ok", "panic"}
             /\ fs'[top.src] = fs[top.dest]
             /\ top.src # top.dest => fs'[top.dest] = NoFile
             /\ \A p \in Paths \ {top.src, top.dest} : fs'[p] = fs[p]
             /\ last'.res = "ok" => last'.ret = top.src]_vars

\* C12: undo_move on an empty log returns nothing and changes neither the
\* sequence, the index, the log, the disk nor the loaded set; on a non-empty
\* log it never returns "nothing to undo" and the entry it took is gone from
\* the log, so once every recorded move has been taken a further undo_move
\* returns nothing.
C12_UndoOnEmptyLog ==
    [][last'.op = "undo" =>
          /\ (last'.res = "nothing") <=> (move_log = <<>>)
          /\ move_log = <<>> =>
                 /\ all_images' = all_images
                 /\ current_image_index' = current_image_index
                 /\ move_log' = move_log
                 /\ fs' = fs
                 /\ image_paths' = image_paths
                 /\ panicked' = panicked
          /\ move_log # <<>> =>
                 /\ Len(move_log') = Len(move_log) - 1
                 /\ \A k \in 1 .. Len(move_log') : move_log'[k] = move_log[k]]_vars

\* C12 witness: undo_move found the log empty after a move into directory 2
\* had been recorded and undone (the file it overwrote there is gone), with
\* images in the sequence and in the loaded set.
C12_Witness ==
    /\ last = Hist("undo", "nothing")
    /\ move_log = <<>>
    /\ fs[<<2, 1>>] = NoFile
    /\ fs[<<1, 1>>] = <<1, 1>>
    /\ all_images # <<>>
    /\ image_paths # {}

\* C13: move_current_image_to_dest fails with the no-current-image error
\* exactly when the sequence is empty or the index is beyond it, and then it
\* renames nothing and leaves the log, the sequence and the index unchanged.
C13_MoveWithoutCurrentImage ==
    [][last'.op = "move" =>
          /\ (last'.res = "no_image") <=> (current_image_index >= Len(all_images))
          /\ current_image_index >= Len(all_images) =>
                 /\ fs' = fs
                 /\ move_log' = move_log
                 /\ all_images' = all_images
                 /\ current_image_index' = current_image_index]_vars

\* C13 witness: a move was refused on a sequence that earlier moves had
\* emptied, with their entries in the log.
C13_Witness ==
    /\ last = Hist("move", "no_image")
    /\ all_images = <<>>
    /\ Len(move_log) >= 1
    /\ fs[<<2, 2>>] = <<1, 2>>

\* C14: set_image_folder replaces the sequence by the listing of one
\* directory (its image files, each once, in descending order), sets the
\* index to 0 whatever it was, and leaves the move log as it was.
C14_SetImageFolder ==
    [][last'.op = "set_image_folder" =>
          /\ current_image_index' = 0
          /\ move_log' = move_log
          /\ \E dir \in Dirs :
                 {all_images'[k] : k \in 1 .. Len(all_images')} =
                     {p \in Paths : /\ p[1] = dir
                                    /\ fs[p] # NoFile
                                    /\ Extension(p[2]) \in {"jpg", "Jpeg", "PNG"}}
          /\ \A j, k \in 1 .. Len(all_images') :
                 j < k => all_images'[j][2] > all_images'[k][2]]_vars

\* C14 witness: a folder with several images was picked while two moves were
\* in the log.
C14_Witness ==
    /\ last = Hist("set_image_folder", "ok")
    /\ Len(move_log) = 2
    /\ Len(all_images) >= 2
    /\ current_image_index = 0

\* C15: when the rename back fails, undo_move returns nothing, the sequence,
\* the index, the loaded set and the disk are as they were, and the entry it
\* took is gone from the log while the entries below it stay, so the next
\* undo_move takes the entry below.
C15_FailedUndoLosesEntry ==
    [][(last'.op = "undo" /\ last'.res = "io_error") =>
          /\ move_log # <<>>
          /\ Len(move_log') = Len(move_log) - 1
          /\ \A k \in 1 .. Len(move_log') : move_log'[k] = move_log[k]
          /\ all_images' = all_images
          /\ current_image_index' = current_image_index
          /\ image_paths' = image_paths
          /\ fs' = fs
          /\ ~panicked']_vars

\* C15 witness: an undo_move failed on the later of two recorded moves; its
\* file is still in directory 2, its entry is gone and the earlier entry is
\* now the last of the log.
C15_Witness ==
    /\ last = Hist("undo", "io_error")
    /\ Len(move_log) = 1
    /\ \E name \in Names :
           /\ fs[<<2, name>>] = <<1, name>>
           /\ fs[<<1, name>>] = NoFile
           /\ move_log[1].src # <<1, name>>
           /\ \A k \in 1 .. Len(all_images) : all_images[k] # <<1, name>>

\* What a successful move of the image at the current index of a sequence of
\* two or more does to the sequence, the index and the files at the source
\* and at every path other than the destination.
C16_MoveEffect ==
    LET i == current_image_index
        n == Len(all_images)
        src == all_images[i + 1]
        dest == <<pre_move'.dest_dir, src[2]>>
    IN /\ fs'[dest] = fs[src]
       /\ src # dest => fs'[src] = NoFile
       /\ \A p \in Paths \ {src, dest} : fs'[p] = fs[p]
       /\ Len(all_images') = n - 1
       /\ \A k \in 1 .. (n - 1) :
              all_images'[k] = IF k <= i THEN all_images[k] ELSE all_images[k + 1]
       /\ i < n - 1 =>
              /\ current_image_index' = i
              /\ all_images'[current_image_index' + 1] = all_images[i + 2]
       /\ i = n - 1 =>
              /\ current_image_index' = n - 2
              /\ all_images'[current_image_index' + 1] = all_images[n - 1]

\* C16 (as claimed): a successful move at index i of a sequence of n >= 2
\* renames the file at index i into the destination under its own name and
\* touches no other file (no file of the destination is replaced); the
\* sequence loses element i and keeps the order of the others; the current
\* element becomes the old element i + 1, or the old element n - 2 when i
\* was the last index.
C16_MoveTouchesNoOtherFile ==
    [][(last' = Hist("move", "ok") /\ Len(all_images) >= 2) =>
          /\ C16_MoveEffect
          /\ LET src == all_images[current_image_index + 1]
                 dest == <<pre_move'.dest_dir, src[2]>>
             IN src # dest => fs[dest] = NoFile]_vars

\* C16 (amended): as claimed, except that a file of the same name already in
\* the destination is replaced by the moved file; every path other than the
\* source and the destination keeps its file.
C16_MoveReplacesOnlyDest ==
    [][(last' = Hist("move", "ok") /\ Len(all_images) >= 2) => C16_MoveEffect]_vars

\* C16 witness: a move from the last index of a sequence of three into
\* another directory has replaced a file of the same name there.
C16_Witness ==
    /\ last = Hist("move", "ok")
    /\ pre_move.valid
    /\ Len(pre_move.all_images) = 3
    /\ pre_move.current_image_index = 2
    /\ MovedDest # MovedSrc
    /\ pre_move.fs[MovedDest] # NoFile
    /\ fs[MovedDest] = pre_move.fs[MovedSrc]
    /\ current_image_index = 1

\* C17: the move log changes in two ways only.  A successful move appends
\* one entry, whose src is the moved path and whose dest is the destination
\* directory joined with the file name of src; an undo_move on a non-empty
\* log removes the last entry.  Every other step (a failed or refused move,
\* next, previous, set_image_folder, cleanup, the display request) leaves
\* the log as it was, and the entries that stay are never changed.
C17_MoveLogFrame ==
    [][IF last' = Hist("move", "ok")
       THEN LET src == all_images[current_image_index + 1]
            IN move_log' = move_log \o
                   <<[src |-> src, dest |-> <<pre_move'.dest_dir, src[2]>>]>>
       ELSE IF last'.op = "undo" /\ move_log # <<>>
       THEN /\ Len(move_log') = Len(move_log) - 1
            /\ \A k \in 1 .. Len(move_log') : move_log'[k] = move_log[k]
       ELSE move_log' = move_log]_vars

\* C17 witness: a move failed in its rename while two earlier moves were in
\* the log, and both entries are still there.
C17_Witness ==
    /\ last = Hist("move", "io_error")
    /\ Len(move_log) = 2
    /\ move_log[1].src # move_log[2].src
    /\ \A k \in 1 .. 2 : fs[move_log[k].dest] = move_log[k].src

\* C18 (as claimed): cleanup runs after the mutations of its tick, so that it
\* keeps the window of the index and the sequence as the tick leaves them:
\* when a tick is over, no image outside that window is loaded.
C18_CleanupAfterMutations ==
    last.op = "load_current_image" => image_paths \subseteq KeepSet

\* C18 (amended): cleanup runs once per tick and as its first step, before
\* next, previous, undo, the moves, the folder choice and the display
\* request, none of which runs in a tick before cleanup has; cleanup changes
\* neither the sequence nor the index, and what it leaves loaded lies in the
\* window of the index and the sequence as the previous tick left them.
C18_CleanupOpensTick ==
    [][/\ last'.op = "cleanup" =>
              /\ last.op \in {"init", "load_current_image"}
              /\ all_images' = all_images
              /\ current_image_index' = current_image_index
              /\ image_paths' \subseteq KeepSet
       /\ last'.op \in {"next_image", "previous_image", "undo", "move",
                        "set_image_folder", "load_current_image"} =>
              last.op \notin {"init", "load_current_image"}]_vars

\* C18 witness: next_image has moved the index after the cleanup of its
\* tick, and an image outside the window of the new index is still loaded.
C18_Witness ==
    /\ last = Hist("next_image", "ok")
    /\ Len(all_images) = SessionImages
    /\ current_image_index > WindowRadius
    /\ image_paths \ KeepSet # {}

\* remove_current_image on a sequence that has a current image: the path it
\* returns, and the sequence and the index it leaves.
RemoveCurrentImage(images, index) ==
    [path |-> images[index + 1],
     images |-> VecRemove(images, index),
     index |-> IndexAfterRemove(index, Len(images) - 1)]

\* k calls of remove_current_image, as k successful moves make them: the
\* paths returned, in order, and the sequence and the index left.
RECURSIVE RemoveTimes(_, _, _)
RemoveTimes(images, index, k) ==
    IF k = 0 \/ NoCurrentImage(images, index)
    THEN [moved |-> <<>>, images |-> images, index |-> index]
    ELSE LET one == RemoveCurrentImage(images, index)
             rest == RemoveTimes(one.images, one.index, k - 1)
         IN [rest EXCEPT !.moved = <<one.path>> \o rest.moved]

\* C19: from the sequence of n images that set_image_folder leaves, n
\* successful moves in a row take every image once, in the order of the
\* sequence, and leave the sequence empty with the index at 0 (n = 1: one
\* move empties it); each successful move is one such step and puts its
\* file into the destination under its name; and once a move has emptied
\* the sequence the index is 0 and the display request finds no image.
C19_MovesEmptySequence ==
    /\ [](last.op = "set_image_folder" =>
            LET all == RemoveTimes(all_images, current_image_index, Len(all_images))
            IN /\ all.moved = all_images
               /\ all.images = <<>>
               /\ all.index = 0)
    /\ [](last = Hist("move", "ok") /\ all_images = <<>> =>
            current_image_index = 0)
    /\ [][last' = Hist("move", "ok") =>
            LET one == RemoveTimes(all_images, current_image_index, 1)
            IN /\ Len(one.moved) = 1
               /\ all_images' = one.images
               /\ current_image_index' = one.index
               /\ move_log'[Len(move_log')].src = one.moved[1]
               /\ fs'[<<pre_move'.dest_dir, one.moved[1][2]>>] = fs[one.moved[1]]]_vars
    /\ [][(last = Hist("move", "ok") /\ all_images = <<>>
              /\ last'.op = "load_current_image") =>
            (last'.res = "none" /\ image_paths' = image_paths)]_vars

\* C19 witness: three moves in a row from index 0 have taken the three
\* images of directory 1, in the order of the listing, into directory 2 and
\* have left the sequence empty.
C19_Witness ==
    /\ last = Hist("move", "ok")
    /\ all_images = <<>>
    /\ current_image_index = 0
    /\ Len(move_log) = NumImages
    /\ \A k \in 1 .. NumImages :
           /\ move_log[k].src = <<1, NumImages + 1 - k>>
           /\ fs[<<2, NumImages + 1 - k>>] = <<1, NumImages + 1 - k>>
           /\ fs[<<1, NumImages + 1 - k>>] = NoFile

\* C20: an undo_move that succeeds, whatever happened since the move it
\* reverses, puts the src of the entry it took at the current index, moves
\* the elements from that index on one place to the right in their order,
\* leaves the elements before it and the index as they were, and so makes
\* the restored path the current one; the sequence grows by one.
C20_UndoInsertsAtCurrent ==
    [][(last'.op = "undo" /\ last'.res = "ok") =>
          LET src == move_log[Len(move_log)].src
              i == current_image_index
          IN /\ i <= Len(all_images)
             /\ current_image_index' = i
             /\ Len(all_images') = Len(all_images) + 1
             /\ all_images'[i + 1] = src
             /\ last'.ret = src
             /\ \A k \in 1 .. i : all_images'[k] = all_images[k]
             /\ \A k \in (i + 1) .. Len(all_images) :
                    all_images'[k + 1] = all_images[k]]_vars

\* C20 witness: after a move and a step of navigation, an undo_move has put
\* the restored path between two other images, at the current index.
C20_Witness ==
    /\ last.op = "undo"
    /\ last.res = "ok"
    /\ ~pre_move.valid
    /\ Len(all_images) = 3
    /\ current_image_index = 1
    /\ all_images[2] = last.ret
    /\ all_images # <<<<1, 3>>, <<1, 2>>, <<1, 1>>>>

\* C21: remove_folder_letter_entries, given distinct valid indices in any
\* order, does not panic, removes the entries at those positions of the
\* table as it was and no other, and keeps the remaining entries in their
\* order; given all the indices it leaves the table empty.
C21_RemoveFolderLetterEntries ==
    [][(/\ last'.op = "remove_folder_letter_entries"
        /\ \A j \in 1 .. Len(last'.arg) : last'.arg[j] < Len(folder_letter_entries)
        /\ \A j, k \in 1 .. Len(last'.arg) : j # k => last'.arg[j] # last'.arg[k]) =>
          LET n == Len(folder_letter_entries)
              gone == {last'.arg[j] : j \in 1 .. Len(last'.arg)}
              m == n - Cardinality(gone)
              kept == CHOOSE f \in [1 .. m -> (0 .. (n - 1)) \ gone] :
                          \A j, k \in 1 .. m : j < k => f[j] < f[k]
          IN /\ ~panicked'
             /\ last'.res = "ok"
             /\ Len(folder_letter_entries') = m
             /\ \A k \in 1 .. m :
                    folder_letter_entries'[k] = folder_letter_entries[kept[k] + 1]
             /\ m = 0 => folder_letter_entries' = <<>>]_vars

\* C21 witness: two entries of a table of three were removed, their indices
\* given in ascending order, and one entry is left.
C21_Witness ==
    /\ last.op = "remove_folder_letter_entries"
    /\ last.res = "ok"
    /\ Len(last.arg) = 2
    /\ last.arg[1] < last.arg[2]
    /\ last.arg[2] = 2
    /\ Len(folder_letter_entries) = 1

\* C22: whenever the sequence is non-empty, the path at the current index is
\* one of the paths cleanup keeps, and a cleanup never evicts the current
\* image when it is loaded.
C22_CurrentIsKept ==
    /\ [](all_images # <<>> =>
            /\ current_image_index < Len(all_images)
            /\ all_images[current_image_index + 1] \in KeepSet)
    /\ [][(/\ last'.op = "cleanup"
            /\ all_images # <<>>
            /\ all_images[current_image_index + 1] \in image_paths) =>
              all_images'[current_image_index' + 1] \in image_paths']_vars

\* C22 witness: a cleanup has run deep inside a long sequence, other loaded
\* images remain, and the current image is still loaded.
C22_Witness ==
    /\ last.op = "cleanup"
    /\ Len(all_images) >= 2 * WindowRadius + 2
    /\ current_image_index > WindowRadius
    /\ all_images[current_image_index + 1] \in image_paths
    /\ Cardinality(image_paths) >= 3

\* C23 (as claimed): on a disk that only the program changes, whatever
\* set_image_folder, next, previous, moves and undos have run, every path
\* of the sequence names a file that is on disk at that path, and no path
\* is in the sequence twice.
C23_SequenceMatchesDisk ==
    /\ \A k \in 1 .. Len(all_images) : fs[all_images[k]] # NoFile
    /\ \A j, k \in 1 .. Len(all_images) : j # k => all_images[j] # all_images[k]

====
